---- MODULE Spec2Model ----
(***************************************************************************)
(* Price-judgment engine of src/app.py: feature encoding                   *)
(* (map_building_age, build_model_input), attribution grouping             *)
(* (group_shap_values), and the /judge_price handler (grid simulation,     *)
(* point prediction, ordered judgment rules).                              *)
(*                                                                         *)
(* Conventions.                                                            *)
(*  - Arabic identifiers are transliterated: payload fields keep the       *)
(*    underscore form of the pydantic model (num_rooms ...), training      *)
(*    columns keep the space form of TRAIN_KEYS ("num rooms" ...).         *)
(*  - Prices are exact rationals [n, d] (d > 0); the float literals 0.9,   *)
(*    0.7, 0.85, 0.95, 1.05, 1.011 are the rationals 9/10 ... 1011/1000.   *)
(*    Binary floating-point rounding of the products is not modelled.      *)
(*  - A one-row DataFrame is the sequence of its values, aligned with      *)
(*    feature_columns (the reindex of build_model_input fixes the columns).*)
(***************************************************************************)
EXTENDS Integers, Sequences, FiniteSets, TLC

VARIABLES
  feature_columns,  \* joblib.load(FEATURES_PATH): ordered column names
  city_categories,  \* joblib.load(CITIES_PATH): the trained city names
  final_model,      \* joblib.load(MODEL_PATH): the external regressor
  pc,               \* position of the running handler / function call
  received,         \* the request as it arrived (never written after Init)
  payload,          \* the handler's request object
  variant,          \* the grid sample object built last
  samples,          \* every value `variant` has taken, in order
  variants,         \* list of encoded grid samples
  predicted_prices, \* final_model.predict(all_df)
  price_min, price_max, price_mean,
  listed, predicted_price, judgment_key,
  df_input,         \* build_model_input(payload)
  shap_values,      \* explainer(df_input).values[0]
  ranked,           \* group_shap_values: the sorted dict before the cut
  factors,          \* group_shap_values(...): the returned top groups
  age, bucket       \* argument and result of map_building_age

vars == <<feature_columns, city_categories, final_model, pc, received, payload,
          variant, samples, variants, predicted_prices, price_min, price_max,
          price_mean, listed, predicted_price, judgment_key, df_input,
          shap_values, ranked, factors, age, bucket>>

---------------------------------------------------------------------------
(* Generic helpers *)

Range(s) == {s[i] : i \in DOMAIN s}

StartsWith(s, p) == Len(s) >= Len(p) /\ SubSeq(s, 1, Len(p)) = p

Abs(x) == IF x < 0 THEN -x ELSE x

\* sum of s[lo..hi], halving the range
RECURSIVE SumRange(_, _, _)
SumRange(s, lo, hi) ==
  IF lo > hi THEN 0
  ELSE IF lo = hi THEN s[lo]
  ELSE LET mid == (lo + hi) \div 2
       IN SumRange(s, lo, mid) + SumRange(s, mid + 1, hi)

SumSeq(s) == SumRange(s, 1, Len(s))

MinSeq(s) == CHOOSE m \in Range(s) : \A x \in Range(s) : m <= x
MaxSeq(s) == CHOOSE m \in Range(s) : \A x \in Range(s) : m >= x

\* exact rationals
Rat(n, d) == [n |-> n, d |-> d]
RInt(x) == Rat(x, 1)
RMul(a, b) == Rat(a.n * b.n, a.d * b.d)
RLt(a, b) == a.n * b.d < b.n * a.d
RLe(a, b) == a.n * b.d <= b.n * a.d
RGt(a, b) == RLt(b, a)
\* Python max(a, b): b only when b > a
RMax(a, b) == IF RGt(b, a) THEN b ELSE a

---------------------------------------------------------------------------
(* Static configuration of app.py *)

TRAIN_KEYS ==
  [num_rooms |-> "num rooms", num_baths |-> "num baths",
   furnished |-> "furnished", build_area |-> "build area",
   floor |-> "floor", build_age |-> "build age",
   mortgaged |-> "mortgaged", payment |-> "payment"]

CITY_PREFIX == "city_"

\* the literal of line 101 (the Arabic word for "other")
OTHER_CITY == "other"

---------------------------------------------------------------------------
(* map_building_age *)

map_building_age_shifted(a) ==
  IF a = 0 THEN 0
  ELSE IF a = 1 THEN 1
  ELSE IF 2 <= a /\ a <= 5 THEN 2
  ELSE IF 6 <= a /\ a <= 9 THEN 3
  ELSE IF 10 <= a /\ a < 19 THEN 4
  ELSE 5

map_building_age(a) ==
  IF a = 0 THEN 0
  ELSE IF a = 1 THEN 1
  ELSE IF 2 <= a /\ a <= 5 THEN 2
  ELSE IF 6 <= a /\ a <= 9 THEN 3
  ELSE IF 10 <= a /\ a <= 19 THEN 4
  ELSE 5

---------------------------------------------------------------------------
(* build_model_input *)

base_row(p) ==
  (TRAIN_KEYS.num_rooms :> p.num_rooms) @@
  (TRAIN_KEYS.num_baths :> p.num_baths) @@
  (TRAIN_KEYS.furnished :> p.furnished) @@
  (TRAIN_KEYS.build_area :> p.build_area) @@
  (TRAIN_KEYS.floor :> p.floor) @@
  (TRAIN_KEYS.build_age :> map_building_age(p.build_age)) @@
  (TRAIN_KEYS.mortgaged :> p.mortgaged) @@
  (TRAIN_KEYS.payment :> p.payment)

\* lines 96-103 with the else of line 100 lost: the fallback column is set
\* for every request
city_cols_no_else(p) ==
  LET zero == [c \in {CITY_PREFIX \o x : x \in city_categories} |-> 0]
      one == IF p.city \in city_categories
             THEN [zero EXCEPT ![CITY_PREFIX \o p.city] = 1]
             ELSE zero
      other_col == CITY_PREFIX \o OTHER_CITY
  IN IF other_col \in DOMAIN one THEN [one EXCEPT ![other_col] = 1] ELSE one

city_cols(p) ==
  LET zero == [c \in {CITY_PREFIX \o x : x \in city_categories} |-> 0]
      other_col == CITY_PREFIX \o OTHER_CITY
  IN IF p.city \in city_categories
     THEN [zero EXCEPT ![CITY_PREFIX \o p.city] = 1]
     ELSE IF other_col \in DOMAIN zero
          THEN [zero EXCEPT ![other_col] = 1]
          ELSE zero

\* df.reindex(columns=feature_columns, fill_value=0)
reindex(row) ==
  LET produced == DOMAIN row
  IN [i \in 1..Len(feature_columns) |->
        IF feature_columns[i] \in produced THEN row[feature_columns[i]] ELSE 0]

build_model_input(p) ==
  \* {**base, **city_cols}: a city column wins over a base key of the same name
  reindex(city_cols(p) @@ base_row(p))

\* df.iloc[0][name] for a column of the schema
Cell(df, name) ==
  df[CHOOSE i \in 1..Len(feature_columns) : feature_columns[i] = name]

\* the city indicator columns of the schema (line 120)
city_features ==
  SelectSeq(feature_columns, LAMBDA col : StartsWith(col, CITY_PREFIX))

---------------------------------------------------------------------------
(* group_shap_values *)

\* FEATURE_GROUPS, in definition order; the city group is the last
FEATURE_GROUPS ==
  << [name |-> "area and rooms",
      features |-> <<TRAIN_KEYS.build_area, TRAIN_KEYS.num_rooms>>],
     [name |-> "bathrooms", features |-> <<TRAIN_KEYS.num_baths>>],
     [name |-> "condition",
      features |-> <<TRAIN_KEYS.furnished, TRAIN_KEYS.build_age,
                     TRAIN_KEYS.mortgaged>>],
     [name |-> "payment", features |-> <<TRAIN_KEYS.payment>>],
     [name |-> "floor", features |-> <<TRAIN_KEYS.floor>>],
     [name |-> "city", features |-> city_features] >>

CITY_GROUP == "city"

\* feature_shap.get(f, 0) with feature_shap = dict(zip(columns, shap_values))
feature_shap_get(shap, f) ==
  IF f \in Range(feature_columns) THEN Cell(shap, f) ELSE 0

\* lines 127-133: the signed sum of every group, in FEATURE_GROUPS order
grouped_sums(shap, df) ==
  LET groups == FEATURE_GROUPS
  IN [g \in DOMAIN groups |->
        LET features == groups[g].features
            used == IF groups[g].name = CITY_GROUP
                    THEN SelectSeq(features, LAMBDA f : Cell(df, f) = 1)
                    ELSE features
        IN SumSeq([i \in DOMAIN used |-> feature_shap_get(shap, used[i])])]

\* round(n / d, 0) for d > 0, ties to the even neighbour
RoundDiv(n, d) ==
  LET a == Abs(n)
      q == a \div d
      r == a % d
      up == 2 * r > d \/ (2 * r = d /\ q % 2 = 1)
      m == IF up THEN q + 1 ELSE q
  IN IF n < 0 THEN -m ELSE m

\* line 136 without the division by total_abs (raw sums scaled by 100)
normalize_unscaled(grouped) ==
  [g \in DOMAIN grouped |-> grouped[g] * 10000]

\* lines 135-136: percentages in hundredths of a percent (12.34% is 1234);
\* with total_abs = 0 every sum is 0 and 0 / 1e-9 * 100 is 0.0
normalize(grouped) ==
  LET total_abs == SumSeq([g \in DOMAIN grouped |-> Abs(grouped[g])])
  IN [g \in DOMAIN grouped |->
        IF total_abs = 0 THEN 0 ELSE RoundDiv(grouped[g] * 10000, total_abs)]

\* position of a new item in a list sorted by descending |value|: behind
\* every item whose key is not smaller (stable)
RECURSIVE insert_desc(_, _)
insert_desc(sorted, item) ==
  IF sorted = <<>> THEN <<item>>
  ELSE IF Abs(Head(sorted).value) >= Abs(item.value)
       THEN <<Head(sorted)>> \o insert_desc(Tail(sorted), item)
       ELSE <<item>> \o sorted

RECURSIVE sort_items(_, _)
sort_items(items, acc) ==
  IF items = <<>> THEN acc
  ELSE sort_items(Tail(items), insert_desc(acc, Head(items)))

\* an ascending sort that is then reversed: equal keys end in reverse
\* definition order
RECURSIVE insert_desc_ties_reversed(_, _)
insert_desc_ties_reversed(sorted, item) ==
  IF sorted = <<>> THEN <<item>>
  ELSE IF Abs(Head(sorted).value) > Abs(item.value)
       THEN <<Head(sorted)>> \o insert_desc_ties_reversed(Tail(sorted), item)
       ELSE <<item>> \o sorted

RECURSIVE sort_items_ties_reversed(_, _)
sort_items_ties_reversed(items, acc) ==
  IF items = <<>> THEN acc
  ELSE sort_items_ties_reversed(Tail(items),
                                insert_desc_ties_reversed(acc, Head(items)))

sorted_by_abs_desc_reversed(items) == sort_items_ties_reversed(items, <<>>)

\* line 139: sorted(..., key=abs, reverse=True), a stable sort
sorted_by_abs_desc(items) == sort_items(items, <<>>)

\* lines 135-139: the dict `ranked` after the sort, as a list of items
ranked_items(shap, df) ==
  LET groups == FEATURE_GROUPS
      pct == normalize(grouped_sums(shap, df))
  IN sorted_by_abs_desc(
       [g \in DOMAIN groups |-> [name |-> groups[g].name, value |-> pct[g]]])

TOP_K == 4

\* line 142: dict(list(ranked.items())[:4])
top_ranked(items) == SubSeq(items, 1, IF Len(items) < TOP_K THEN Len(items) ELSE TOP_K)

group_shap_values(shap, df) == top_ranked(ranked_items(shap, df))

---------------------------------------------------------------------------
(* The external regressor: final_model.predict on one encoded row.         *)
(* The model is a pickle outside the repository; two stand-ins are used:   *)
(* "flat" ignores the row, "linear" is sensitive to every column.          *)

Get(df, name) == IF name \in Range(feature_columns) THEN Cell(df, name) ELSE 0

ModelPredict(m, df) ==
  IF m = "flat" THEN 40
  ELSE 10 + 7 * Get(df, TRAIN_KEYS.num_rooms)
          + 5 * Get(df, TRAIN_KEYS.num_baths)
          + 3 * Get(df, TRAIN_KEYS.furnished)
          + 2 * Get(df, TRAIN_KEYS.build_area)
          + Get(df, TRAIN_KEYS.floor)
          + 2 * (5 - Get(df, TRAIN_KEYS.build_age))
          + 4 * (1 - Get(df, TRAIN_KEYS.mortgaged))
          + Get(df, TRAIN_KEYS.payment)
          + 6 * Get(df, CITY_PREFIX \o "A")
          + 9 * Get(df, CITY_PREFIX \o "B")

\* lines 152-153 and 231-232: y_pred *= 1.011 when the parking flag is set
parking_surcharge(p, y) ==
  IF p.parking # 0 THEN RMul(RInt(y), Rat(1011, 1000)) ELSE RInt(y)

---------------------------------------------------------------------------
(* judge_price: the grid simulation *)

\* range(1, 4): one room count short
ROOMS_short == <<1, 2, 3>>

ROOMS == <<1, 2, 3, 4>>
BATHS == <<1, 2, 3>>
AGES == <<0, 5, 9, 19, 20>>
FLOORS == <<0, 1, 2, 3, 4, 11>>
FURNISHED == <<0, 1>>
PAYMENTS == <<0, 1, 2>>
MORTGAGED == <<0, 1>>

\* the seven for-loops, outermost first
GRID == <<ROOMS, BATHS, AGES, FLOORS, FURNISHED, PAYMENTS, MORTGAGED>>

\* the seven assignments of lines 203-209
assign_grid(obj, idx) ==
  [obj EXCEPT !.num_rooms = GRID[1][idx[1]],
              !.num_baths = GRID[2][idx[2]],
              !.build_age = GRID[3][idx[3]],
              !.floor = GRID[4][idx[4]],
              !.furnished = GRID[5][idx[5]],
              !.payment = GRID[6][idx[6]],
              !.mortgaged = GRID[7][idx[7]]]

\* variant = payload (no copy): the assignments write through to the request
grid_variant_aliased(p, idx) ==
  [payload |-> assign_grid(p, idx), variant |-> assign_grid(p, idx)]

\* a fresh sample built from the grid values and the city only: area and
\* parking are not carried over
grid_variant_fresh(p, idx) ==
  [payload |-> p,
   variant |-> assign_grid([p EXCEPT !.build_area = 1, !.parking = 0], idx)]

\* lines 202-209: variant = payload.model_copy(deep=True), then the seven
\* assignments on the copy; the request object itself is not written
grid_variant(p, idx) ==
  [payload |-> p, variant |-> assign_grid(p, idx)]

\* the loop body, lines 202-210, on the locals st at loop positions idx
loop_body(st, idx) ==
  LET gv == grid_variant(st.payload, idx)
  IN [payload |-> gv.payload,
      variant |-> gv.variant,
      samples |-> Append(st.samples, gv.variant),
      variants |-> Append(st.variants, build_model_input(gv.variant))]

\* lines 195-210: the iterations i, i+1, ... of for-loop k (the outer loops
\* standing at idx), started with the locals st; below the innermost loop
\* the body runs once
RECURSIVE run_loops(_, _, _, _)
run_loops(k, i, idx, st) ==
  IF k > Len(GRID) THEN loop_body(st, idx)
  ELSE IF i > Len(GRID[k]) THEN st
  ELSE LET inner == run_loops(k + 1, 1, Append(idx, i), st)
       IN \* iteration i of loop k completes before iteration i + 1 starts
          IF Len(inner.variants) >= 0
          THEN run_loops(k, i + 1, idx, inner)
          ELSE inner

---------------------------------------------------------------------------
(* judge_price: the ordered rules of lines 234-247 *)

\* rules 3 and 4 tried in the opposite order
judge_rules_swapped(l, pred, pmin, pmean, pmax) ==
  IF RLt(l, RMax(RMul(pmin, Rat(9, 10)), RMul(pmean, Rat(7, 10))))
    THEN "SUSPICIOUSLY_UNDERPRICED"
  ELSE IF RLt(l, RMul(pmean, Rat(85, 100))) THEN "FAIR_LOW"
  ELSE IF RLt(l, RMul(pmean, Rat(95, 100))) THEN "GOOD_DEAL"
  ELSE IF RLe(RMul(pred, Rat(95, 100)), l) /\ RLe(l, RMul(pred, Rat(105, 100)))
    THEN "PREDICTED_PRICE"
  ELSE IF RLt(l, pred) THEN "PREDICTED_PRICE"
  ELSE IF RLe(l, pmax) THEN "FAIR_PRICE"
  ELSE "OVERPRICED"

\* rule 3 lost: the 5% band around the prediction is not recognised
judge_rules_no_band(l, pred, pmin, pmean, pmax) ==
  IF RLt(l, RMax(RMul(pmin, Rat(9, 10)), RMul(pmean, Rat(7, 10))))
    THEN "SUSPICIOUSLY_UNDERPRICED"
  ELSE IF RLt(l, RMul(pmean, Rat(85, 100))) THEN "FAIR_LOW"
  ELSE IF RLt(l, RMul(pmean, Rat(95, 100))) THEN "GOOD_DEAL"
  ELSE IF RLt(l, pred) THEN "PREDICTED_PRICE"
  ELSE IF RLe(l, pmax) THEN "FAIR_PRICE"
  ELSE "OVERPRICED"

judge_rules(l, pred, pmin, pmean, pmax) ==
  IF RLt(l, RMax(RMul(pmin, Rat(9, 10)), RMul(pmean, Rat(7, 10))))
    THEN "SUSPICIOUSLY_UNDERPRICED"
  ELSE IF RLt(l, RMul(pmean, Rat(85, 100))) THEN "FAIR_LOW"
  ELSE IF RLe(RMul(pred, Rat(95, 100)), l) /\ RLe(l, RMul(pred, Rat(105, 100)))
    THEN "PREDICTED_PRICE"
  ELSE IF RLt(l, RMul(pmean, Rat(95, 100))) THEN "GOOD_DEAL"
  ELSE IF RLt(l, pred) THEN "PREDICTED_PRICE"
  ELSE IF RLe(l, pmax) THEN "FAIR_PRICE"
  ELSE "OVERPRICED"

---------------------------------------------------------------------------
(* Bounds and input sets *)

MaxAge == 60
MaxListed == 110
PriceStep == 20
MaxK == 5
PredStep == 10
MaxPredK == 11
MaxShap == 1

BaseColumns ==
  <<TRAIN_KEYS.num_rooms, TRAIN_KEYS.num_baths, TRAIN_KEYS.furnished,
    TRAIN_KEYS.build_area, TRAIN_KEYS.floor, TRAIN_KEYS.build_age,
    TRAIN_KEYS.mortgaged, TRAIN_KEYS.payment>>

CityNames == {"A", "B", OTHER_CITY}
RequestCities == CityNames \cup {"Unknown"}

CityColumnLists ==
  { <<>>, <<"city_A">>, <<"city_B">>, <<"city_other">>,
    <<"city_A", "city_B">>, <<"city_A", "city_other">>,
    <<"city_other", "city_B">>, <<"city_B", "city_other", "city_A">> }

\* schemas: the base columns (all, or without the floor and with a column
\* the encoder never produces), then some city columns
Schemas ==
  { b \o c : b \in {BaseColumns,
                    <<"balcony">> \o SelectSeq(BaseColumns,
                        LAMBDA x : x # TRAIN_KEYS.floor)},
             c \in CityColumnLists }

FullSchema == BaseColumns \o <<"city_A", "city_B", "city_other">>

NoPayload ==
  [num_rooms |-> 0, num_baths |-> 0, furnished |-> 0, build_area |-> 0,
   floor |-> 0, build_age |-> 0, mortgaged |-> 0, payment |-> 0,
   parking |-> 0, city |-> "", listed_price |-> 0]

Request(rooms, baths, furn, area, fl, a, mort, pay, park, c, price) ==
  [num_rooms |-> rooms, num_baths |-> baths, furnished |-> furn,
   build_area |-> area, floor |-> fl, build_age |-> a, mortgaged |-> mort,
   payment |-> pay, parking |-> park, city |-> c, listed_price |-> price]

EncodeRequests ==
  { Request(3, 2, 1, 12, 2, a, 0, 0, 0, c, 0) :
      a \in {0, 7}, c \in RequestCities }

\* two listings, one inside the grid's ranges and one outside them, in every
\* city and with and without parking
JudgeRequests ==
  { Request(3, 2, 1, 12, 2, 7, 0, 0, park, c, 70) :
      park \in {0, 1}, c \in {"A", "B", "Unknown"} }
  \cup
  { Request(6, 4, 0, 9, -1, 30, 1, 5, park, c, 100) :
      park \in {0, 1}, c \in {"A", "B", "Unknown"} }

Models == {"flat", "linear"}

\* market summary values and point predictions (zero and negative included:
\* the regressor is not constrained to positive outputs)
Lattice == {k * PriceStep : k \in -1..MaxK}
PredLattice == {k * PredStep : k \in -1..MaxPredK}

\* raw attributions: one free value for a leading column of every group,
\* and a noise value on the remaining columns
ShapVector(g, noise) ==
  [i \in 1..Len(feature_columns) |->
     LET c == feature_columns[i]
     IN IF c = TRAIN_KEYS.build_area THEN g[1]
        ELSE IF c = TRAIN_KEYS.num_baths THEN g[2]
        ELSE IF c = TRAIN_KEYS.furnished THEN g[3]
        ELSE IF c = TRAIN_KEYS.payment THEN g[4]
        ELSE IF c = TRAIN_KEYS.floor THEN g[5]
        ELSE IF c = CITY_PREFIX \o "A" THEN g[6]
        ELSE noise]

ShapInputs ==
  { ShapVector(g, noise) :
      g \in [1..6 -> -MaxShap..MaxShap], noise \in {0, 1} }

---------------------------------------------------------------------------
(* Initial states *)

NoGridState ==
  /\ variant = NoPayload /\ samples = <<>> /\ variants = <<>>
  /\ predicted_prices = <<>>

NoSummary ==
  /\ price_min = RInt(0) /\ price_max = RInt(0) /\ price_mean = RInt(0)

NoPoint == listed = RInt(0) /\ predicted_price = RInt(0)

NoShapState == shap_values = <<>> /\ ranked = <<>> /\ factors = <<>>

NoAgeState == age = 0 /\ bucket = -1

NoRequest == received = NoPayload /\ payload = NoPayload

\* a /judge_price request has arrived; the handler is at line 193
Init ==
  /\ feature_columns = FullSchema
  /\ city_categories = CityNames
  /\ final_model \in Models
  /\ received \in JudgeRequests
  /\ payload = received
  /\ pc = "simulate"
  /\ NoGridState
  /\ NoSummary /\ NoPoint /\ judgment_key = "" /\ df_input = <<>>
  /\ NoShapState /\ NoAgeState

\* the rules of lines 234-247 on any listed price, prediction and summary
InitJudge ==
  /\ feature_columns = FullSchema
  /\ city_categories = CityNames
  /\ final_model = "flat"
  /\ NoRequest /\ NoGridState /\ NoShapState /\ NoAgeState
  /\ df_input = <<>> /\ judgment_key = ""
  /\ pc = "judge"
  /\ listed \in {RInt(l) : l \in 1..MaxListed}
  /\ predicted_price \in {RInt(v) : v \in PredLattice}
  /\ price_min \in {RInt(v) : v \in Lattice}
  /\ price_mean \in {RInt(v) : v \in Lattice}
  /\ price_max \in {RInt(v) : v \in Lattice}
  /\ RLe(price_min, price_mean) /\ RLe(price_mean, price_max)

\* a call of build_model_input under any schema and any non-empty city set
InitEncode ==
  /\ feature_columns \in Schemas
  /\ city_categories \in (SUBSET CityNames) \ {{}}
  /\ final_model = "flat"
  /\ received \in EncodeRequests
  /\ payload = received
  /\ pc = "encode"
  /\ NoGridState /\ NoSummary /\ NoPoint /\ NoShapState /\ NoAgeState
  /\ df_input = <<>> /\ judgment_key = ""

\* a /predict request has arrived
InitPredict ==
  /\ feature_columns \in
       {FullSchema,
        <<"balcony">> \o SelectSeq(BaseColumns, LAMBDA x : x # TRAIN_KEYS.floor)
          \o <<"city_A", "city_B">>}
  /\ city_categories = CityNames
  /\ final_model = "linear"
  /\ received \in {Request(3, 2, 1, 12, 2, 7, 0, 0, 1, "A", 0),
                   Request(2, 1, 0, 9, 0, 0, 1, 1, 0, "Unknown", 0)}
  /\ payload = received
  /\ pc = "predict"
  /\ NoGridState /\ NoSummary /\ NoPoint /\ NoShapState /\ NoAgeState
  /\ df_input = <<>> /\ judgment_key = ""

\* a call of map_building_age
InitAge ==
  /\ feature_columns = FullSchema
  /\ city_categories = CityNames
  /\ final_model = "flat"
  /\ NoRequest /\ NoGridState /\ NoSummary /\ NoPoint /\ NoShapState
  /\ df_input = <<>> /\ judgment_key = ""
  /\ pc = "age"
  /\ age \in 0..MaxAge
  /\ bucket = -1

---------------------------------------------------------------------------
(* Actions *)

metadata == <<feature_columns, city_categories, final_model>>

\* lines 193-210: the seven nested loops, run to completion
Simulate ==
  /\ pc = "simulate"
  /\ LET st == run_loops(1, 1, <<>>,
                         [payload |-> payload, variant |-> variant,
                          samples |-> samples, variants |-> variants])
     IN /\ payload' = st.payload
        /\ variant' = st.variant
        /\ samples' = st.samples
        /\ variants' = st.variants
  /\ pc' = "summarize"
  /\ UNCHANGED <<metadata, received, predicted_prices, price_min, price_max,
                 price_mean, listed, predicted_price, judgment_key, df_input,
                 shap_values, ranked, factors, age, bucket>>

\* lines 212-217: one predict call on the concatenated batch, then the
\* statistics the rules read (median, quartiles and histogram are outputs
\* only and are left out)
Summarize ==
  /\ pc = "summarize"
  /\ predicted_prices' =
       [i \in DOMAIN variants |-> ModelPredict(final_model, variants[i])]
  /\ price_min' = RInt(MinSeq(predicted_prices'))
  /\ price_max' = RInt(MaxSeq(predicted_prices'))
  /\ price_mean' = Rat(SumSeq(predicted_prices'), Len(predicted_prices'))
  /\ pc' = "point"
  /\ UNCHANGED <<metadata, received, payload, variant, samples, variants, listed,
                 predicted_price, judgment_key, df_input, shap_values, ranked,
                 factors, age, bucket>>

\* lines 226-232
PointPredict ==
  /\ pc = "point"
  /\ listed' = RInt(payload.listed_price)
  /\ df_input' = build_model_input(payload)
  /\ predicted_price' =
       parking_surcharge(payload, ModelPredict(final_model, df_input'))
  /\ pc' = "judge"
  /\ UNCHANGED <<metadata, received, payload, variant, samples, variants,
                 predicted_prices, price_min, price_max, price_mean,
                 judgment_key, shap_values, ranked, factors, age, bucket>>

\* lines 234-247
JudgeStep ==
  /\ pc = "judge"
  /\ judgment_key' =
       judge_rules(listed, predicted_price, price_min, price_mean, price_max)
  /\ pc' = "done"
  /\ UNCHANGED <<metadata, received, payload, variant, samples, variants,
                 predicted_prices, price_min, price_max, price_mean, listed,
                 predicted_price, df_input, shap_values, ranked, factors, age,
                 bucket>>

\* build_model_input(payload), lines 84-108
Encode ==
  /\ pc = "encode"
  /\ df_input' = build_model_input(payload)
  /\ pc' = "encoded"
  /\ UNCHANGED <<metadata, received, payload, variant, samples, variants,
                 predicted_prices, price_min, price_max, price_mean, listed,
                 predicted_price, judgment_key, shap_values, ranked, factors,
                 age, bucket>>

\* the /predict handler, lines 147-165; the explainer is external and may
\* return any attribution vector
Predict ==
  /\ pc = "predict"
  /\ df_input' = build_model_input(payload)
  /\ predicted_price' =
       parking_surcharge(payload, ModelPredict(final_model, df_input'))
  /\ \E shap \in ShapInputs :
       /\ shap_values' = shap
       /\ ranked' = ranked_items(shap, df_input')
       /\ factors' = top_ranked(ranked')
  /\ pc' = "predicted"
  /\ UNCHANGED <<metadata, received, payload, variant, samples, variants,
                 predicted_prices, price_min, price_max, price_mean, listed,
                 judgment_key, age, bucket>>

\* map_building_age(age), lines 69-81
MapAge ==
  /\ pc = "age"
  /\ bucket' = map_building_age(age)
  /\ pc' = "aged"
  /\ UNCHANGED <<metadata, received, payload, variant, samples, variants,
                 predicted_prices, price_min, price_max, price_mean, listed,
                 predicted_price, judgment_key, df_input, shap_values, ranked,
                 factors, age>>

Next == Simulate \/ Summarize \/ PointPredict \/ JudgeStep

Spec == Init /\ [][Next]_vars
SpecJudge == InitJudge /\ [][JudgeStep]_vars
SpecEncode == InitEncode /\ [][Encode]_vars
SpecPredict == InitPredict /\ [][Predict]_vars
SpecAge == InitAge /\ [][MapAge]_vars

---------------------------------------------------------------------------
(* Claims *)

Labels ==
  {"SUSPICIOUSLY_UNDERPRICED", "FAIR_LOW", "PREDICTED_PRICE", "GOOD_DEAL",
   "FAIR_PRICE", "OVERPRICED"}

\* the seven rules as an ordered list of (condition, label) pairs
RuleList(l, pred, pmin, pmean, pmax) ==
  << [cond |-> RLt(l, RMax(RMul(Rat(9, 10), pmin), RMul(Rat(7, 10), pmean))),
      label |-> "SUSPICIOUSLY_UNDERPRICED"],
     [cond |-> RLt(l, RMul(Rat(85, 100), pmean)), label |-> "FAIR_LOW"],
     [cond |-> RLe(RMul(Rat(95, 100), pred), l)
               /\ RLe(l, RMul(Rat(105, 100), pred)),
      label |-> "PREDICTED_PRICE"],
     [cond |-> RLt(l, RMul(Rat(95, 100), pmean)), label |-> "GOOD_DEAL"],
     [cond |-> RLt(l, pred), label |-> "PREDICTED_PRICE"],
     [cond |-> RLe(l, pmax), label |-> "FAIR_PRICE"],
     [cond |-> TRUE, label |-> "OVERPRICED"] >>

FirstMatch(rules) ==
  rules[CHOOSE i \in DOMAIN rules :
          rules[i].cond /\ \A j \in 1..(i - 1) : ~rules[j].cond].label

StateRules == RuleList(listed, predicted_price, price_min, price_mean, price_max)

\* C1: for any listed price, prediction and summary with min <= mean <= max,
\* judge_price returns exactly one of the labels, and it is the label of the
\* first rule of the ordered list (1)-(7) whose condition holds.
C1_FirstMatchingRule ==
  pc = "done" =>
    /\ judgment_key \in Labels
    /\ judgment_key = FirstMatch(StateRules)

\* the order decides: rules 3 and 4 both match, and rule 3 gives the label
C1_Witness ==
  /\ pc = "done"
  /\ RGt(price_min, RInt(0))
  /\ StateRules[3].cond /\ StateRules[4].cond
  /\ ~StateRules[1].cond /\ ~StateRules[2].cond
  /\ judgment_key = "PREDICTED_PRICE"

\* C10: with listed > 0 and min <= mean <= max, the label is OVERPRICED
\* exactly when listed > market max and listed > 1.05 * predicted.
C10_OverpricedIff ==
  pc = "done" =>
    (judgment_key = "OVERPRICED" <=>
       /\ RGt(listed, price_max)
       /\ RGt(listed, RMul(Rat(105, 100), predicted_price)))

\* a listing above the whole market range, at most 5% above the prediction
C10_Witness ==
  /\ pc = "done"
  /\ RGt(price_min, RInt(0))
  /\ RGt(listed, price_max)
  /\ RGt(listed, predicted_price)
  /\ RLe(listed, RMul(Rat(105, 100), predicted_price))
  /\ judgment_key = "PREDICTED_PRICE"

\* the city indicator columns of df_input that hold 1
Ones == {c \in Range(city_features) : Cell(df_input, c) = 1}

OtherCol == CITY_PREFIX \o OTHER_CITY
InSchema(c) == c \in Range(feature_columns)

\* C2 as stated: the indicator set is the request's city column (where the
\* schema has one) when the city is in city_set, else the "other" column
\* whenever the schema defines it, else none.
C2_Original ==
  pc = "encoded" =>
    IF payload.city \in city_categories
    THEN Ones = IF InSchema(CITY_PREFIX \o payload.city)
                THEN {CITY_PREFIX \o payload.city} ELSE {}
    ELSE IF InSchema(OtherCol) THEN Ones = {OtherCol} ELSE Ones = {}

\* C2 amended: the request's city column is set when the city is in city_set
\* (and the schema has that column); for a city outside city_set the "other"
\* column is set when "other" is a member of city_set and the schema has the
\* column; in every other case no city indicator is set.
C2_Amended ==
  pc = "encoded" =>
    IF payload.city \in city_categories
    THEN Ones = IF InSchema(CITY_PREFIX \o payload.city)
                THEN {CITY_PREFIX \o payload.city} ELSE {}
    ELSE Ones = IF OTHER_CITY \in city_categories /\ InSchema(OtherCol)
                THEN {OtherCol} ELSE {}

\* an unknown city falls back to the "other" column
C2_Witness ==
  /\ pc = "encoded"
  /\ payload.city = "Unknown"
  /\ city_categories = CityNames
  /\ InSchema(CITY_PREFIX \o "A")
  /\ Ones = {OtherCol}

\* C3: at most one city indicator is 1, whatever the city, schema and
\* city_set; an unknown city without an "other" column encodes to a complete
\* vector whose city indicators are all 0.
C3_AtMostOneCity ==
  pc = "encoded" =>
    /\ Cardinality(Ones) <= 1
    /\ Len(df_input) = Len(feature_columns)
    /\ (payload.city \notin city_categories
        /\ (~InSchema(OtherCol) \/ OTHER_CITY \notin city_categories))
       => \A c \in Range(city_features) : Cell(df_input, c) = 0

\* city "Unknown", city_set {A, B}, a schema with both city columns and no
\* "other" column
C3_Witness ==
  /\ pc = "encoded"
  /\ payload.city = "Unknown"
  /\ city_categories = {"A", "B"}
  /\ Range(city_features) = {"city_A", "city_B"}
  /\ Ones = {}
  /\ Len(df_input) = Len(feature_columns)

\* the boundaries of the claim, as a table
BucketTable(a) ==
  IF a \in {0} THEN 0
  ELSE IF a \in {1} THEN 1
  ELSE IF a \in 2..5 THEN 2
  ELSE IF a \in 6..9 THEN 3
  ELSE IF a \in 10..19 THEN 4
  ELSE 5

\* C8: every age >= 0 maps to the bucket of the table {0}, {1}, {2..5},
\* {6..9}, {10..19}, {20+}, a value in 0..5, and no smaller age maps to a
\* larger bucket.
C8_AgeBuckets ==
  pc = "aged" =>
    /\ bucket \in 0..5
    /\ bucket = BucketTable(age)
    /\ \A a \in 0..age : map_building_age(a) <= bucket

\* the upper edge of the 10..19 bucket
C8_Witness == pc = "aged" /\ age = 19 /\ bucket = 4

SumAbsRanked == SumSeq([i \in DOMAIN ranked |-> Abs(ranked[i].value)])

\* six values rounded to two decimals: half a hundredth each
ROUNDING_TOLERANCE == Len(FEATURE_GROUPS) \div 2

AllGroupsZero ==
  LET sums == grouped_sums(shap_values, df_input)
  IN \A g \in DOMAIN sums : sums[g] = 0

\* C6 as stated: for any attributions the absolute percentages of the six
\* groups sum to 100 within the rounding tolerance.
C6_Original ==
  pc = "predicted" =>
    /\ Len(ranked) = Len(FEATURE_GROUPS)
    /\ Abs(SumAbsRanked - 10000) <= ROUNDING_TOLERANCE

\* C6 amended: the absolute percentages of the six groups sum to 100 within
\* the rounding tolerance unless every group's signed sum is 0; then every
\* percentage is 0.
C6_Amended ==
  pc = "predicted" =>
    /\ Len(ranked) = Len(FEATURE_GROUPS)
    /\ IF AllGroupsZero
       THEN \A i \in DOMAIN ranked : ranked[i].value = 0
       ELSE Abs(SumAbsRanked - 10000) <= ROUNDING_TOLERANCE

\* three groups of 33.33% each: the sum is 99.99
C6_Witness ==
  /\ pc = "predicted"
  /\ ~AllGroupsZero
  /\ SumAbsRanked = 9999

\* the normalized percentages of the six groups for the attributions of the
\* state, in FEATURE_GROUPS order
StatePct == normalize(grouped_sums(shap_values, df_input))

\* the names of FEATURE_GROUPS, in definition order
GroupNames == [g \in DOMAIN FEATURE_GROUPS |-> FEATURE_GROUPS[g].name]

\* a group with |percentage| vx, defined at position gx, ranks before one
\* with vy at gy: larger absolute value, or equal and defined earlier
Before(vx, gx, vy, gy) == vx > vy \/ (vx = vy /\ gx < gy)

\* C7: the result holds exactly 4 groups with their percentages, each
\* ranking before the next, and every kept group ranks before every dropped
\* one (ties go to the group defined earlier in FEATURE_GROUPS).
C7_TopFourStable ==
  pc = "predicted" =>
    LET pct == StatePct
        names == GroupNames
        kept == {factors[i].name : i \in DOMAIN factors}
        pos == [i \in DOMAIN factors |->
                  CHOOSE g \in DOMAIN names : names[g] = factors[i].name]
    IN /\ Len(factors) = 4
       /\ \A i \in DOMAIN factors :
            /\ factors[i].name \in Range(names)
            /\ factors[i].value = pct[pos[i]]
       /\ \A i, j \in DOMAIN factors :
            i < j => Before(Abs(factors[i].value), pos[i],
                            Abs(factors[j].value), pos[j])
       /\ \A g \in DOMAIN names :
            names[g] \notin kept =>
              \A i \in DOMAIN factors :
                Before(Abs(factors[i].value), pos[i], Abs(pct[g]), g)

\* a tie across the cut: the fourth kept group and a dropped group have the
\* same non-zero absolute percentage
C7_Witness ==
  /\ pc = "predicted"
  /\ Len(factors) = 4
  /\ factors[4].value # 0
  /\ \E g \in DOMAIN GroupNames :
       /\ GroupNames[g] \notin {factors[i].name : i \in DOMAIN factors}
       /\ Abs(StatePct[g]) = Abs(factors[4].value)

\* the grid of the claim
GridCombos ==
  {1, 2, 3, 4} \X {1, 2, 3} \X {0, 5, 9, 19, 20} \X {0, 1, 2, 3, 4, 11}
    \X {0, 1} \X {0, 1, 2} \X {0, 1}

SampleOf(req, c) ==
  [req EXCEPT !.num_rooms = c[1], !.num_baths = c[2], !.build_age = c[3],
              !.floor = c[4], !.furnished = c[5], !.payment = c[6],
              !.mortgaged = c[7]]

\* C4: whatever the request, the loops build exactly 4320 samples, one for
\* each combination of the grid, and all of them are predicted in one batch.
C4_GridCardinality ==
  /\ pc # "simulate" => Len(samples) = 4320 /\ Len(variants) = 4320
  /\ pc = "summarize" =>
       /\ Cardinality(Range(samples)) = 4320
       /\ Range(samples) = {SampleOf(received, c) : c \in GridCombos}
       /\ \A i \in DOMAIN samples : variants[i] = build_model_input(samples[i])
  /\ pc \in {"point", "judge", "done"} => Len(predicted_prices) = 4320
  /\ pc = "point" =>
       \A i \in DOMAIN variants :
         predicted_prices[i] = ModelPredict(final_model, variants[i])

\* a request whose own attributes lie outside the grid
C4_Witness ==
  /\ pc = "done"
  /\ received.num_rooms = 6 /\ received.build_age = 30
  /\ Len(variants) = 4320
  /\ Len(predicted_prices) = 4320

FixedFields == {"city", "build_area", "parking", "listed_price"}

\* C5: every sample keeps the request's city, building area and parking
\* flag (only the seven grid attributes are written), and so does its
\* encoded row.
C5_FixedAttributes ==
  pc = "summarize" =>
    LET req_row == build_model_input(received)
        fixed_columns == {TRAIN_KEYS.build_area} \cup Range(city_features)
    IN /\ samples # <<>> /\ Len(samples) = Len(variants)
       /\ \A i \in DOMAIN samples :
            /\ \A f \in FixedFields : samples[i][f] = received[f]
            /\ \A c \in fixed_columns : Cell(variants[i], c) = Cell(req_row, c)

\* a sample that differs from a request with parking in its room count
C5_Witness ==
  /\ pc = "summarize"
  /\ received.parking = 1 /\ received.city = "B"
  /\ \A i \in DOMAIN samples :
       /\ samples[i].parking = 1 /\ samples[i].city = "B"
       /\ samples[i].build_area = received.build_area
  /\ \E i \in DOMAIN samples : samples[i].num_rooms # received.num_rooms

\* C9: the request object is never written by the grid loops, the point
\* prediction is made once all 4320 samples exist, and it is the (parking
\* adjusted) prediction for the request's original attributes.
C9_PointPrediction ==
  /\ payload = received
  /\ pc \in {"simulate", "summarize", "point"} =>
       df_input = <<>> /\ predicted_price = RInt(0)
  /\ pc \in {"judge", "done"} =>
       /\ Len(variants) = 4320
       /\ df_input = build_model_input(received)
       /\ predicted_price =
            parking_surcharge(received,
                              ModelPredict(final_model,
                                           build_model_input(received)))

\* the prediction differs from the one the last grid sample would give
C9_Witness ==
  /\ pc = "done"
  /\ final_model = "linear"
  /\ payload = received
  /\ predicted_price #
       parking_surcharge(received,
                         ModelPredict(final_model, variants[Len(variants)]))

====
